---- MODULE Spec2Model ----
(***************************************************************************)
(* Model of anchor/validators/custom.py: the CSR admission validators.     *)
(*                                                                         *)
(* A validator step is configured once (conf: the step's name and its      *)
(* keyword arguments) and then invoked on any number of requests.  A       *)
(* Python str is a sequence of one-character strings, so that split,       *)
(* suffix matching and address/OID parsing are computed, not tabulated.    *)
(***************************************************************************)
EXTENDS Integers, Sequences, FiniteSets, TLC

VARIABLES conf, constructed, call, outcome, again, th

vars == <<conf, constructed, call, outcome, again, th>>

(* ------------------------------ bounds --------------------------------- *)
MaxExts == 2

MaxList == 2

MaxCNs == 2

SeqsUpTo(S, n) == UNION {[1..k -> S] : k \in 0..n}

(* --------------------------- string literals --------------------------- *)
s_digitalSignature == <<"d", "i", "g", "i", "t", "a", "l", "S", "i", "g", "n", "a", "t", "u", "r", "e">>

s_keyEncipherment == <<"k", "e", "y", "E", "n", "c", "i", "p", "h", "e", "r", "m", "e", "n", "t">>

s_keyCertSign == <<"k", "e", "y", "C", "e", "r", "t", "S", "i", "g", "n">>

s_cRLSign == <<"c", "R", "L", "S", "i", "g", "n">>

s_Digital_Signature == <<"D", "i", "g", "i", "t", "a", "l", " ", "S", "i", "g", "n", "a", "t", "u", "r", "e">>

s_Key_Encipherment == <<"K", "e", "y", " ", "E", "n", "c", "i", "p", "h", "e", "r", "m", "e", "n", "t">>

s_serverAuth == <<"s", "e", "r", "v", "e", "r", "A", "u", "t", "h">>

s_TLS_Web_Server_Authentication == <<"T", "L", "S", " ", "W", "e", "b", " ", "S", "e", "r", "v", "e", "r", " ", "A", "u", "t", "h", "e", "n", "t", "i", "c", "a", "t", "i", "o", "n">>

s_oid_serverAuth == <<"1", ".", "3", ".", "6", ".", "1", ".", "5", ".", "5", ".", "7", ".", "3", ".", "1">>

s_oid_1_2_3_4 == <<"1", ".", "2", ".", "3", ".", "4">>

s_not_a_real_usage == <<"n", "o", "t", "-", "a", "-", "r", "e", "a", "l", "-", "u", "s", "a", "g", "e">>

s_1_0_0_5 == <<"1", ".", "0", ".", "0", ".", "5">>

s_1_0_1_5 == <<"1", ".", "0", ".", "1", ".", "5">>

s_2_0_0_1 == <<"2", ".", "0", ".", "0", ".", "1">>

s_a_ex_c == <<"a", ".", "e", "x", ".", "c">>

s_ex_c == <<"e", "x", ".", "c">>

s_vex_c == <<"v", "e", "x", ".", "c">>

s_net_1_0_0 == <<"1", ".", "0", ".", "0", ".", "0", "/", "2", "4">>

s_net_1_0_1 == <<"1", ".", "0", ".", "1", ".", "0", "/", "2", "4">>

s_not_a_cidr == <<"n", "o", "t", "-", "a", "-", "c", "i", "d", "r">>

s_t_h == <<"t", "-", "h">>

s_t_h_2 == <<"t", "-", "h", "-", "2">>

s_th == <<"t", "h">>

s_u_h == <<"u", "-", "h">>

s_t_x_h == <<"t", ".", "x", "-", "h">>

s_t == <<"t">>

s_t_x == <<"t", ".", "x">>

s_ga == <<"g", "a">>

s_gb == <<"g", "b">>

(* ---------------------------- str operations --------------------------- *)
RECURSIVE SplitFrom(_, _, _)
SplitFrom(s, sep, cur) ==
    IF s = <<>> THEN <<cur>>
    ELSE IF Head(s) = sep THEN <<cur>> \o SplitFrom(Tail(s), sep, <<>>)
    ELSE SplitFrom(Tail(s), sep, Append(cur, Head(s)))

\* str.split(sep) for a one-character separator
split(s, sep) == SplitFrom(s, sep, <<>>)

\* sep in s
contains(s, sep) == \E i \in 1..Len(s) : s[i] = sep

\* s.endswith(suffix)
endswith(s, suffix) ==
    /\ Len(suffix) <= Len(s)
    /\ SubSeq(s, Len(s) - Len(suffix) + 1, Len(s)) = suffix

DigitVal ==
    ("0" :> 0) @@ ("1" :> 1) @@ ("2" :> 2) @@ ("3" :> 3) @@ ("4" :> 4) @@
    ("5" :> 5) @@ ("6" :> 6) @@ ("7" :> 7) @@ ("8" :> 8) @@ ("9" :> 9)

IsDecimal(p) == Len(p) > 0 /\ \A i \in 1..Len(p) : p[i] \in DOMAIN DigitVal

RECURSIVE DecimalValue(_)
DecimalValue(p) ==
    IF p = <<>> THEN 0
    ELSE 10 * DecimalValue(SubSeq(p, 1, Len(p) - 1)) + DigitVal[p[Len(p)]]

(* ------------------------------- netaddr ------------------------------- *)
\* netaddr.IPAddress(s): a dotted quad of decimal octets, else AddrFormatError
IPAddress(s) ==
    LET parts == split(s, ".") IN
    IF /\ Len(parts) = 4
       /\ \A i \in 1..4 : /\ IsDecimal(parts[i])
                          /\ Len(parts[i]) <= 3
                          /\ DecimalValue(parts[i]) <= 255
    THEN [ok |-> TRUE, octets |-> [i \in 1..4 |-> DecimalValue(parts[i])]]
    ELSE [ok |-> FALSE, octets |-> <<0, 0, 0, 0>>]

\* netaddr.IPNetwork(s): "<address>/<prefix length>" or a bare address (/32)
IPNetwork(s) ==
    LET parts == split(s, "/")
        addr  == IPAddress(parts[1])
    IN  IF Len(parts) = 1 /\ addr.ok
        THEN [ok |-> TRUE, octets |-> addr.octets, bits |-> 32]
        ELSE IF /\ Len(parts) = 2
                /\ addr.ok
                /\ IsDecimal(parts[2])
                /\ Len(parts[2]) <= 2
                /\ DecimalValue(parts[2]) <= 32
        THEN [ok |-> TRUE, octets |-> addr.octets, bits |-> DecimalValue(parts[2])]
        ELSE [ok |-> FALSE, octets |-> <<0, 0, 0, 0>>, bits |-> 0]

Pow2(n) == IF n = 0 THEN 1 ELSE IF n = 1 THEN 2 ELSE IF n = 2 THEN 4
           ELSE IF n = 3 THEN 8 ELSE IF n = 4 THEN 16 ELSE IF n = 5 THEN 32
           ELSE IF n = 6 THEN 64 ELSE IF n = 7 THEN 128 ELSE 256

\* number of leading bits of octet k that a prefix of length bits covers
OctetBits(bits, k) ==
    LET left == bits - 8 * (k - 1) IN
    IF left <= 0 THEN 0 ELSE IF left >= 8 THEN 8 ELSE left

\* address in network: the address agrees with the network on the prefix
InNetwork(addr, net) ==
    \A k \in 1..4 :
        LET shift == Pow2(8 - OctetBits(net.bits, k)) IN
        addr.octets[k] \div shift = net.octets[k] \div shift

(* ------------------------------ outcomes ------------------------------- *)
NoOutcome ==
    [kind |-> "none", code |-> "", denied |-> {}, denied_oids |-> {}, at |-> 0]

\* normal return of a validator
Accept == [NoOutcome EXCEPT !.kind = "accept"]

\* raise v_errors.ValidationError(...); code names the message
ValidationError(code) ==
    [NoOutcome EXCEPT !.kind = "ValidationError", !.code = code]

\* an exception of the interpreter that is not a ValidationError
TypeError == [NoOutcome EXCEPT !.kind = "TypeError", !.code = "TypeError"]

(* ------------------------------ the CSR -------------------------------- *)
BasicConstraints(ca) ==
    [kind |-> "BasicConstraints", ca |-> ca, usages |-> {}, oids |-> {}]

KeyUsage(usages) ==
    [kind |-> "KeyUsage", ca |-> FALSE, usages |-> usages, oids |-> {}]

ExtendedKeyUsage(oids) ==
    [kind |-> "ExtendedKeyUsage", ca |-> FALSE, usages |-> {}, oids |-> oids]

SubjectAltName ==
    [kind |-> "SubjectAltName", ca |-> FALSE, usages |-> {}, oids |-> {}]

OtherExtension ==
    [kind |-> "Other", ca |-> FALSE, usages |-> {}, oids |-> {}]

CSR(cns, exts) == [cns |-> cns, exts |-> exts]

(* --------------------------- configuration ----------------------------- *)
EmptyDict == [k \in {} |-> <<>>]

\* a validator step with no keyword given
NoConf(name) ==
    [name |-> name, given |-> {}, allowed_domains |-> <<>>,
     allowed_networks |-> <<>>, group_prefixes |-> EmptyDict,
     allowed_usage |-> <<>>, ca_requested |-> FALSE, cidrs |-> <<>>]

\* a str object and an ObjectIdentifier object, as elements of a list
PyStr(s) == [type |-> "str", str |-> s, oid |-> <<>>]

PyOid(o) == [type |-> "oid", str |-> <<>>, oid |-> o]

NoCall == [name |-> "none", csr |-> CSR(<<>>, <<>>), groups |-> {}, client_addr |-> <<>>]

Call(name, csr, groups, client_addr) ==
    [name |-> name, csr |-> csr, groups |-> groups, client_addr |-> client_addr]

(* ------------------------------ ca_status ------------------------------ *)
RECURSIVE ca_status_loop(_, _, _, _)
ca_status_loop(exts, i, ca_requested, request_ca_flags) ==
    IF i > Len(exts)
    THEN IF ca_requested /\ ~request_ca_flags
         THEN ValidationError("CAFlagsRequired")
         ELSE Accept
    ELSE LET ext == exts[i] IN
         IF ext.kind = "BasicConstraints"
         THEN IF ext.ca
              THEN IF ~ca_requested
                   THEN [ValidationError("CANotAllowed") EXCEPT !.at = i]
                   ELSE ca_status_loop(exts, i + 1, ca_requested, TRUE)
              ELSE ca_status_loop(exts, i + 1, ca_requested, request_ca_flags)
         ELSE IF ext.kind = "KeyUsage"
         THEN LET has_cert_sign == s_keyCertSign \in ext.usages
                  has_crl_sign  == s_cRLSign \in ext.usages
              IN  IF has_crl_sign \/ has_cert_sign
                  THEN IF ~ca_requested
                       THEN [ValidationError("KeyUsageCAMismatch") EXCEPT !.at = i]
                       ELSE ca_status_loop(exts, i + 1, ca_requested, TRUE)
                  ELSE ca_status_loop(exts, i + 1, ca_requested, request_ca_flags)
         ELSE ca_status_loop(exts, i + 1, ca_requested, request_ca_flags)

\* variant: request_ca_flags starts out set
ca_status_flags_preset(csr, kwargs) ==
    LET ca_requested == IF "ca_requested" \in kwargs.given
                        THEN kwargs.ca_requested ELSE FALSE
    IN  ca_status_loop(csr.exts, 1, ca_requested, TRUE)

ca_status(csr, kwargs) ==
    LET ca_requested == IF "ca_requested" \in kwargs.given
                        THEN kwargs.ca_requested ELSE FALSE
    IN  ca_status_loop(csr.exts, 1, ca_requested, FALSE)

(* ----------------------------- source_cidrs ---------------------------- *)
RECURSIVE source_cidrs_loop(_, _, _)
source_cidrs_loop(cidrs, i, client_addr) ==
    IF i > Len(cidrs)
    THEN ValidationError("SourceNotAllowed")
    ELSE LET r == IPNetwork(cidrs[i]) IN
         IF ~r.ok
         THEN [ValidationError("InvalidCIDRConfig") EXCEPT !.at = i]
         ELSE IF InNetwork(IPAddress(client_addr), r)
         THEN [Accept EXCEPT !.at = i]
         ELSE source_cidrs_loop(cidrs, i + 1, client_addr)

\* variant: the whole list is parsed before any entry is matched
source_cidrs_validate_first(request, kwargs) ==
    IF "cidrs" \notin kwargs.given
    THEN TypeError
    ELSE IF \E i \in 1..Len(kwargs.cidrs) : ~IPNetwork(kwargs.cidrs[i]).ok
    THEN [ValidationError("InvalidCIDRConfig") EXCEPT
             !.at = CHOOSE i \in 1..Len(kwargs.cidrs) :
                       /\ ~IPNetwork(kwargs.cidrs[i]).ok
                       /\ \A j \in 1..(i - 1) : IPNetwork(kwargs.cidrs[j]).ok]
    ELSE source_cidrs_loop(kwargs.cidrs, 1, request.client_addr)

source_cidrs(request, kwargs) ==
    IF "cidrs" \notin kwargs.given
    THEN TypeError
    ELSE source_cidrs_loop(kwargs.cidrs, 1, request.client_addr)

(* ------------------------- anchor.validators.utils --------------------- *)
\* utils.check_domains: the name equals an allowed suffix, or ends with
\* "." followed by one
check_domains(name, allowed_domains) ==
    \E i \in 1..Len(allowed_domains) :
        \/ name = allowed_domains[i]
        \/ endswith(name, <<".">> \o allowed_domains[i])

\* utils.check_networks: whether the address is inside one of the networks;
\* parsing an entry that is no network fails with netaddr's AddrFormatError
RECURSIVE check_networks_from(_, _, _)
check_networks_from(ip, allowed_networks, i) ==
    IF i > Len(allowed_networks) THEN "False"
    ELSE LET net == IPNetwork(allowed_networks[i]) IN
         IF ~net.ok THEN "AddrFormatError"
         ELSE IF InNetwork(ip, net) THEN "True"
         ELSE check_networks_from(ip, allowed_networks, i + 1)

check_networks(ip, allowed_networks) == check_networks_from(ip, allowed_networks, 1)

\* utils.csr_require_cn: the single CN of the subject, or an error
csr_require_cn(csr) ==
    IF Len(csr.cns) = 0 THEN [ok |-> FALSE, cn |-> <<>>, code |-> "NoCN"]
    ELSE IF Len(csr.cns) > 1 THEN [ok |-> FALSE, cn |-> <<>>, code |-> "TooManyCN"]
    ELSE [ok |-> TRUE, cn |-> csr.cns[1], code |-> ""]

(* ------------------------------ common_name ---------------------------- *)
common_name(csr, kwargs) ==
    LET allowed_domains  == IF "allowed_domains" \in kwargs.given
                            THEN kwargs.allowed_domains ELSE <<>>
        allowed_networks == IF "allowed_networks" \in kwargs.given
                            THEN kwargs.allowed_networks ELSE <<>>
        alt_present == \E i \in 1..Len(csr.exts) : csr.exts[i].kind = "SubjectAltName"
        CNs == csr.cns
    IN  IF Len(CNs) > 1 THEN ValidationError("TooManyCN")
        ELSE IF Len(CNs) = 0 /\ ~alt_present THEN ValidationError("NoSubjectIdentity")
        ELSE IF Len(CNs) > 0
        THEN LET cn  == csr_require_cn(csr).cn
                 ip  == IPAddress(cn)
                 net == IF ip.ok THEN check_networks(ip, allowed_networks)
                        ELSE "AddrFormatError"
             IN  IF net = "True" THEN Accept
                 ELSE IF net = "False" THEN ValidationError("NetworkNotAllowed")
                 \* except netaddr.AddrFormatError
                 ELSE IF ~check_domains(cn, allowed_domains)
                 THEN ValidationError("DomainNotAllowed")
                 ELSE Accept
        ELSE Accept

(* ------------------------------ server_group --------------------------- *)
\* variant: the '.' test on the prefix is missing
server_group_no_dot_test(auth_result, csr, kwargs) ==
    LET group_prefixes == IF "group_prefixes" \in kwargs.given
                          THEN kwargs.group_prefixes ELSE EmptyDict
        req   == csr_require_cn(csr)
        parts == split(req.cn, "-")
    IN  IF ~req.ok THEN ValidationError(req.code)
        ELSE IF Len(parts) = 1 THEN Accept
        ELSE IF parts[1] \in DOMAIN group_prefixes
        THEN IF group_prefixes[parts[1]] \notin auth_result.groups
             THEN ValidationError("GroupMismatch")
             ELSE Accept
        ELSE Accept

server_group(auth_result, csr, kwargs) ==
    LET group_prefixes == IF "group_prefixes" \in kwargs.given
                          THEN kwargs.group_prefixes ELSE EmptyDict
        req   == csr_require_cn(csr)
        parts == split(req.cn, "-")
    IN  IF ~req.ok THEN ValidationError(req.code)
        ELSE IF Len(parts) = 1 \/ contains(parts[1], ".") THEN Accept
        ELSE IF parts[1] \in DOMAIN group_prefixes
        THEN IF group_prefixes[parts[1]] \notin auth_result.groups
             THEN ValidationError("GroupMismatch")
             ELSE Accept
        ELSE Accept

(* ------------------------------- key_usage ----------------------------- *)
\* extension.LONG_KEY_USAGE_NAMES: long name -> usage flag
LONG_KEY_USAGE_NAMES ==
    (s_Digital_Signature :> s_digitalSignature) @@
    (s_Key_Encipherment :> s_keyEncipherment)

\* LONG_KEY_USAGE_NAMES.get(x, x)
LongNameGet(x) ==
    IF x \in DOMAIN LONG_KEY_USAGE_NAMES THEN LONG_KEY_USAGE_NAMES[x] ELSE x

RECURSIVE key_usage_loop(_, _, _, _)
key_usage_loop(exts, i, allowed, denied) ==
    IF i > Len(exts)
    THEN IF denied # {}
         THEN [ValidationError("KeyUsageNotAllowed") EXCEPT !.denied = denied]
         ELSE Accept
    ELSE IF exts[i].kind = "KeyUsage"
    THEN key_usage_loop(exts, i + 1, allowed, denied \cup (exts[i].usages \ allowed))
    ELSE key_usage_loop(exts, i + 1, allowed, denied)

\* variant: only the first extension of the CSR is examined
key_usage_first_only(csr, kwargs) ==
    IF "allowed_usage" \notin kwargs.given
    THEN TypeError
    ELSE LET allowed == {LongNameGet(kwargs.allowed_usage[i].str) :
                            i \in 1..Len(kwargs.allowed_usage)}
             first   == IF csr.exts = <<>> THEN <<>> ELSE <<csr.exts[1]>>
         IN  key_usage_loop(first, 1, allowed, {})

key_usage(csr, kwargs) ==
    IF "allowed_usage" \notin kwargs.given
    THEN TypeError
    ELSE LET allowed == {LongNameGet(kwargs.allowed_usage[i].str) :
                            i \in 1..Len(kwargs.allowed_usage)}
         IN  key_usage_loop(csr.exts, 1, allowed, {})

(* ----------------------------- ext_key_usage --------------------------- *)
oid_serverAuth == <<1, 3, 6, 1, 5, 5, 7, 3, 1>>

oid_1_2_3_4 == <<1, 2, 3, 4>>

\* extension.EXT_KEY_USAGE_NAMES_INV: long registered name -> OID
EXT_KEY_USAGE_NAMES_INV == (s_TLS_Web_Server_Authentication :> oid_serverAuth)

\* extension.EXT_KEY_USAGE_SHORT_NAMES_INV: short registered name -> OID
EXT_KEY_USAGE_SHORT_NAMES_INV == (s_serverAuth :> oid_serverAuth)

\* extension.EXT_KEY_USAGE_SHORT_NAMES: OID -> short registered name
EXT_KEY_USAGE_SHORT_NAMES == (oid_serverAuth :> s_serverAuth)

\* variant: only a str is accepted
ObjectIdentifier_str_only(value) ==
    IF value.type = "oid" THEN [ok |-> FALSE, oid |-> <<>>]
    ELSE LET parts == SelectSeq(split(value.str, "."), LAMBDA q : q # <<>>) IN
         IF \A i \in 1..Len(parts) : IsDecimal(parts[i])
         THEN [ok |-> TRUE, oid |-> [i \in 1..Len(parts) |-> DecimalValue(parts[i])]]
         ELSE [ok |-> FALSE, oid |-> <<>>]

\* pyasn1_univ.ObjectIdentifier(value): an ObjectIdentifier is copied, a str
\* is split on "." and every non-empty part must be a decimal number
ObjectIdentifier(value) ==
    IF value.type = "oid" THEN [ok |-> TRUE, oid |-> value.oid]
    ELSE LET parts == SelectSeq(split(value.str, "."), LAMBDA q : q # <<>>) IN
         IF \A i \in 1..Len(parts) : IsDecimal(parts[i])
         THEN [ok |-> TRUE, oid |-> [i \in 1..Len(parts) |-> DecimalValue(parts[i])]]
         ELSE [ok |-> FALSE, oid |-> <<>>]

\* variant: an entry that is already an ObjectIdentifier is taken as unknown
NormalizeUsage_names_only(usage) ==
    IF usage.type # "str" THEN [ok |-> FALSE, oid |-> <<>>]
    ELSE IF usage.str \in DOMAIN EXT_KEY_USAGE_NAMES_INV
    THEN [ok |-> TRUE, oid |-> EXT_KEY_USAGE_NAMES_INV[usage.str]]
    ELSE IF usage.str \in DOMAIN EXT_KEY_USAGE_SHORT_NAMES_INV
    THEN [ok |-> TRUE, oid |-> EXT_KEY_USAGE_SHORT_NAMES_INV[usage.str]]
    ELSE ObjectIdentifier(usage)

\* the body of the normalization loop for one entry of allowed_usage
NormalizeUsage(usage) ==
    IF usage.type = "str" /\ usage.str \in DOMAIN EXT_KEY_USAGE_NAMES_INV
    THEN [ok |-> TRUE, oid |-> EXT_KEY_USAGE_NAMES_INV[usage.str]]
    ELSE IF usage.type = "str" /\ usage.str \in DOMAIN EXT_KEY_USAGE_SHORT_NAMES_INV
    THEN [ok |-> TRUE, oid |-> EXT_KEY_USAGE_SHORT_NAMES_INV[usage.str]]
    ELSE ObjectIdentifier(usage)

\* the scan of the CSR once allowed is known
RECURSIVE ext_key_usage_scan(_, _, _, _)
ext_key_usage_scan(exts, i, allowed, denied) ==
    IF i > Len(exts)
    THEN IF denied # {}
         THEN IF \E x \in denied : x \notin DOMAIN EXT_KEY_USAGE_SHORT_NAMES
              \* ', '.join of a list that holds None
              THEN TypeError
              ELSE [ValidationError("ExtKeyUsageNotAllowed") EXCEPT !.denied_oids = denied]
         ELSE Accept
    ELSE IF exts[i].kind = "ExtendedKeyUsage"
    THEN ext_key_usage_scan(exts, i + 1, allowed, denied \cup (exts[i].oids \ allowed))
    ELSE ext_key_usage_scan(exts, i + 1, allowed, denied)

\* the result is the outcome and the list the call leaves behind
RECURSIVE ext_key_usage_loop(_, _, _)
ext_key_usage_loop(csr, allowed_usage, i) ==
    IF i > Len(allowed_usage)
    THEN LET allowed == {allowed_usage[j].oid : j \in 1..Len(allowed_usage)} IN
         [outcome |-> ext_key_usage_scan(csr.exts, 1, allowed, {}),
          allowed_usage |-> allowed_usage]
    ELSE LET n == NormalizeUsage(allowed_usage[i]) IN
         IF ~n.ok
         THEN [outcome |-> [ValidationError("UnknownUsage") EXCEPT !.at = i],
               allowed_usage |-> allowed_usage]
         ELSE ext_key_usage_loop(csr, [allowed_usage EXCEPT ![i] = PyOid(n.oid)], i + 1)

ext_key_usage(csr, kwargs) ==
    IF "allowed_usage" \notin kwargs.given
    THEN [outcome |-> TypeError, allowed_usage |-> kwargs.allowed_usage]
    ELSE ext_key_usage_loop(csr, kwargs.allowed_usage, 1)

(* ------------------------------ inputs --------------------------------- *)
CaExts ==
    {BasicConstraints(TRUE), BasicConstraints(FALSE), KeyUsage({s_keyCertSign}),
     KeyUsage({s_cRLSign}), KeyUsage({s_digitalSignature})}

CaCSRs == {CSR(<<s_a_ex_c>>, exts) : exts \in SeqsUpTo(CaExts, MaxExts)}

CaConfs ==
    {NoConf("ca_status")} \cup
    {[NoConf("ca_status") EXCEPT !.given = {"ca_requested"}, !.ca_requested = b] :
        b \in BOOLEAN}

CidrStrings == {s_net_1_0_0, s_net_1_0_1, s_not_a_cidr}

ClientAddrs == {s_1_0_0_5, s_1_0_1_5, s_2_0_0_1}

CidrConfs ==
    {NoConf("source_cidrs")} \cup
    {[NoConf("source_cidrs") EXCEPT !.given = {"cidrs"}, !.cidrs = l] :
        l \in SeqsUpTo(CidrStrings, MaxList)}

CNames == {s_1_0_0_5, s_a_ex_c, s_vex_c}

CnExtLists == {<<>>, <<SubjectAltName>>}

CnCSRs == {CSR(cns, exts) : cns \in SeqsUpTo(CNames, MaxCNs), exts \in CnExtLists}

DomainStrings == {s_ex_c, s_1_0_0_5}

CnConfs ==
    {NoConf("common_name")} \cup
    {[NoConf("common_name") EXCEPT !.given = {"allowed_domains", "allowed_networks"},
                                   !.allowed_domains = d, !.allowed_networks = n] :
        d \in SeqsUpTo(DomainStrings, MaxList), n \in SeqsUpTo(CidrStrings, MaxList)}

GroupCNames == {s_t_h, s_t_h_2, s_th, s_u_h, s_t_x_h}

GroupCSRs == {CSR(cns, <<>>) : cns \in SeqsUpTo(GroupCNames, MaxCNs)}

Groups == {s_ga, s_gb}

GroupDicts ==
    UNION {[keys -> Groups] : keys \in SUBSET {s_t, s_t_x}}

GroupConfs ==
    {NoConf("server_group")} \cup
    {[NoConf("server_group") EXCEPT !.given = {"group_prefixes"}, !.group_prefixes = d] :
        d \in GroupDicts}

KuExts ==
    {KeyUsage({}), KeyUsage({s_digitalSignature}),
     KeyUsage({s_digitalSignature, s_keyEncipherment}),
     KeyUsage({s_keyEncipherment, s_keyCertSign}), BasicConstraints(FALSE)}

KuCSRs == {CSR(<<s_a_ex_c>>, exts) : exts \in SeqsUpTo(KuExts, MaxExts)}

KuNames == {s_digitalSignature, s_Digital_Signature, s_Key_Encipherment}

KuConfs ==
    {NoConf("key_usage")} \cup
    {[NoConf("key_usage") EXCEPT !.given = {"allowed_usage"}, !.allowed_usage = l] :
        l \in SeqsUpTo({PyStr(x) : x \in KuNames}, MaxList)}

EkuExts ==
    {ExtendedKeyUsage({}), ExtendedKeyUsage({oid_serverAuth}),
     ExtendedKeyUsage({oid_1_2_3_4}), ExtendedKeyUsage({oid_serverAuth, oid_1_2_3_4}),
     OtherExtension}

EkuCSRs == {CSR(<<s_a_ex_c>>, exts) : exts \in SeqsUpTo(EkuExts, MaxExts)}

EkuNames ==
    {s_TLS_Web_Server_Authentication, s_serverAuth, s_oid_serverAuth,
     s_oid_1_2_3_4, s_not_a_real_usage}

EkuConfs ==
    {NoConf("ext_key_usage")} \cup
    {[NoConf("ext_key_usage") EXCEPT !.given = {"allowed_usage"}, !.allowed_usage = l] :
        l \in SeqsUpTo({PyStr(x) : x \in EkuNames}, MaxList)}

(* ------------------------------ actions -------------------------------- *)
Idle == <<>>

Init ==
    /\ \/ conf \in CaConfs
       \/ conf \in CidrConfs
       \/ conf \in CnConfs
       \/ conf \in GroupConfs
       \/ conf \in KuConfs
       \/ conf \in EkuConfs
    /\ constructed = conf
    /\ call = NoCall
    /\ outcome = NoOutcome
    /\ again = FALSE
    /\ th = Idle

CaStatus ==
    /\ conf.name = "ca_status"
    /\ \E csr \in CaCSRs :
        /\ call' = Call("ca_status", csr, {}, <<>>)
        /\ outcome' = ca_status(csr, conf)
    /\ again' = (call' = call)
    /\ UNCHANGED <<conf, constructed, th>>

SourceCidrs ==
    /\ conf.name = "source_cidrs"
    /\ \E addr \in ClientAddrs :
        /\ call' = Call("source_cidrs", CSR(<<>>, <<>>), {}, addr)
        /\ outcome' = source_cidrs(call', conf)
    /\ again' = (call' = call)
    /\ UNCHANGED <<conf, constructed, th>>

CommonName ==
    /\ conf.name = "common_name"
    /\ \E csr \in CnCSRs :
        /\ call' = Call("common_name", csr, {}, <<>>)
        /\ outcome' = common_name(csr, conf)
    /\ again' = (call' = call)
    /\ UNCHANGED <<conf, constructed, th>>

ServerGroup ==
    /\ conf.name = "server_group"
    /\ \E csr \in GroupCSRs, groups \in SUBSET Groups :
        /\ call' = Call("server_group", csr, groups, <<>>)
        /\ outcome' = server_group(call', csr, conf)
    /\ again' = (call' = call)
    /\ UNCHANGED <<conf, constructed, th>>

KeyUsageCheck ==
    /\ conf.name = "key_usage"
    /\ \E csr \in KuCSRs :
        /\ call' = Call("key_usage", csr, {}, <<>>)
        /\ outcome' = key_usage(csr, conf)
    /\ again' = (call' = call)
    /\ UNCHANGED <<conf, constructed, th>>

\* ext_key_usage writes the normalized entries into the caller's list
ExtKeyUsageCheck ==
    /\ conf.name = "ext_key_usage"
    /\ \E csr \in EkuCSRs :
        LET r == ext_key_usage(csr, conf) IN
        /\ call' = Call("ext_key_usage", csr, {}, <<>>)
        /\ outcome' = r.outcome
        /\ conf' = [conf EXCEPT !.allowed_usage = r.allowed_usage]
    /\ again' = (call' = call)
    /\ UNCHANGED <<constructed, th>>

Next ==
    \/ CaStatus
    \/ SourceCidrs
    \/ CommonName
    \/ ServerGroup
    \/ KeyUsageCheck
    \/ ExtKeyUsageCheck

Spec == Init /\ [][Next]_vars

(* ---------------- ext_key_usage, one bytecode-level step at a time ----- *)
Threads == {"t1", "t2"}

ConcCSRs ==
    {CSR(<<s_a_ex_c>>, <<>>),
     CSR(<<s_a_ex_c>>, <<ExtendedKeyUsage({oid_serverAuth})>>),
     CSR(<<s_a_ex_c>>, <<ExtendedKeyUsage({oid_serverAuth, oid_1_2_3_4})>>)}

\* a call of ext_key_usage that has not run its first step
Frame(csr) ==
    [pc |-> "enumerate", i |-> 0, usage |-> PyStr(<<>>), allowed |-> {},
     csr |-> csr, outcome |-> NoOutcome]

InitConc ==
    /\ conf \in EkuConfs
    /\ constructed = conf
    /\ call = NoCall
    /\ outcome = NoOutcome
    /\ again = FALSE
    /\ th \in [Threads -> {Frame(csr) : csr \in ConcCSRs}]

\* for i, usage in enumerate(allowed_usage): fetch the next element
Enumerate(t) ==
    /\ th[t].pc = "enumerate"
    /\ IF "allowed_usage" \notin conf.given
       THEN th' = [th EXCEPT ![t].pc = "done", ![t].outcome = TypeError]
       ELSE IF th[t].i < Len(conf.allowed_usage)
       THEN th' = [th EXCEPT ![t].pc = "store", ![t].i = @ + 1,
                             ![t].usage = conf.allowed_usage[th[t].i + 1]]
       ELSE th' = [th EXCEPT ![t].pc = "collect", ![t].i = 0]
    /\ UNCHANGED <<conf, constructed, call, outcome, again>>

\* the loop body: allowed_usage[i] = <oid>, or raise
Store(t) ==
    /\ th[t].pc = "store"
    /\ LET n == NormalizeUsage(th[t].usage) IN
       IF n.ok
       THEN /\ conf' = [conf EXCEPT !.allowed_usage[th[t].i] = PyOid(n.oid)]
            /\ th' = [th EXCEPT ![t].pc = "enumerate"]
       ELSE /\ th' = [th EXCEPT ![t].pc = "done",
                                ![t].outcome = [ValidationError("UnknownUsage")
                                                   EXCEPT !.at = th[t].i]]
            /\ UNCHANGED conf
    /\ UNCHANGED <<constructed, call, outcome, again>>

\* allowed = set(allowed_usage), one element at a time
Collect(t) ==
    /\ th[t].pc = "collect"
    /\ IF th[t].i < Len(conf.allowed_usage)
       THEN th' = [th EXCEPT ![t].i = @ + 1,
                             ![t].allowed = @ \cup {conf.allowed_usage[th[t].i + 1]}]
       ELSE th' = [th EXCEPT ![t].pc = "scan"]
    /\ UNCHANGED <<conf, constructed, call, outcome, again>>

\* the scan of the thread's own CSR and the decision
Scan(t) ==
    /\ th[t].pc = "scan"
    /\ LET allowed == {x.oid : x \in {y \in th[t].allowed : y.type = "oid"}} IN
       th' = [th EXCEPT ![t].pc = "done",
                        ![t].outcome = ext_key_usage_scan(th[t].csr.exts, 1, allowed, {})]
    /\ UNCHANGED <<conf, constructed, call, outcome, again>>

NextConc ==
    \E t \in Threads :
        \/ Enumerate(t)
        \/ Store(t)
        \/ Collect(t)
        \/ Scan(t)

SpecConc == InitConc /\ [][NextConc]_vars

(* ======================= properties of the validators ================== *)
Exts == call.csr.exts

\* a CA signal: BasicConstraints with isCA, or KeyUsage with a signing flag
CaSignal(ext) ==
    \/ ext.kind = "BasicConstraints" /\ ext.ca
    \/ ext.kind = "KeyUsage" /\ ext.usages \cap {s_keyCertSign, s_cRLSign} # {}

CaRequested == "ca_requested" \in conf.given /\ conf.ca_requested

FirstCaSignal ==
    CHOOSE i \in 1..Len(Exts) :
        CaSignal(Exts[i]) /\ \A j \in 1..(i - 1) : ~CaSignal(Exts[j])

\* C1: ca_status accepts iff ca_requested equals "a CA signal is present
\* somewhere in the extension list"; without ca_requested the first signal
\* is rejected with CANotAllowed (BasicConstraints) or KeyUsageCAMismatch
\* (KeyUsage); with ca_requested and no signal it rejects with CAFlagsRequired.
C1_CaStatusDecision ==
    call.name = "ca_status" =>
        LET signal == \E i \in 1..Len(Exts) : CaSignal(Exts[i]) IN
        /\ outcome.kind \in {"accept", "ValidationError"}
        /\ outcome.kind = "accept" <=> (CaRequested <=> signal)
        /\ (~CaRequested /\ signal) =>
              outcome.code = IF Exts[FirstCaSignal].kind = "BasicConstraints"
                             THEN "CANotAllowed" ELSE "KeyUsageCAMismatch"
        /\ (CaRequested /\ ~signal) => outcome.code = "CAFlagsRequired"

C1_Witness ==
    /\ call.name = "ca_status"
    /\ ~CaRequested
    /\ Len(Exts) = 2
    /\ ~CaSignal(Exts[1])
    /\ Exts[2].kind = "KeyUsage"
    /\ outcome.code = "KeyUsageCAMismatch"

\* the claimed membership of an address in allowed_networks
InAllowedNetworks(ip, nets) ==
    \E i \in 1..Len(nets) : IPNetwork(nets[i]).ok /\ InNetwork(ip, IPNetwork(nets[i]))

\* C2: common_name accepts iff (a) no CN and a subjectAltName is present, or
\* (b) exactly one CN which, when it parses as an address, is inside
\* allowed_networks and otherwise matches allowed_domains; more than one CN
\* is TooManyCN; an address CN is never domain-checked.
C2_CommonNameDecision ==
    call.name = "common_name" =>
        LET cns  == call.csr.cns
            alt  == \E i \in 1..Len(Exts) : Exts[i].kind = "SubjectAltName"
            doms == IF "allowed_domains" \in conf.given THEN conf.allowed_domains ELSE <<>>
            nets == IF "allowed_networks" \in conf.given THEN conf.allowed_networks ELSE <<>>
            one  == /\ Len(cns) = 1
                    /\ IF IPAddress(cns[1]).ok
                       THEN InAllowedNetworks(IPAddress(cns[1]), nets)
                       ELSE check_domains(cns[1], doms)
        IN  /\ outcome.kind = "accept" <=> ((Len(cns) = 0 /\ alt) \/ one)
            /\ Len(cns) > 1 => outcome.code = "TooManyCN"

\* the first entry of cidrs that is unparseable or contains the address
Decisive(i) ==
    \/ ~IPNetwork(conf.cidrs[i]).ok
    \/ InNetwork(IPAddress(call.client_addr), IPNetwork(conf.cidrs[i]))

\* C3: source_cidrs stops at the first decisive entry: it accepts there if
\* the entry is a network containing the client address, rejects there with
\* InvalidCIDRConfig if the entry is unparseable, and rejects with
\* SourceNotAllowed when no entry is decisive (also for an empty list).
C3_SourceCidrsFirstDecisive ==
    (call.name = "source_cidrs" /\ "cidrs" \in conf.given) =>
        IF \E i \in 1..Len(conf.cidrs) : Decisive(i)
        THEN LET f == CHOOSE i \in 1..Len(conf.cidrs) :
                          Decisive(i) /\ \A j \in 1..(i - 1) : ~Decisive(j)
             IN  /\ outcome.at = f
                 /\ IF IPNetwork(conf.cidrs[f]).ok
                    THEN outcome.kind = "accept"
                    ELSE outcome.kind = "ValidationError"
                         /\ outcome.code = "InvalidCIDRConfig"
        ELSE /\ outcome.kind = "ValidationError"
             /\ outcome.code = "SourceNotAllowed"
             /\ outcome.at = 0

C3_Witness ==
    /\ call.name = "source_cidrs"
    /\ Len(conf.cidrs) = 2
    /\ ~IPNetwork(conf.cidrs[2]).ok
    /\ outcome.kind = "accept"
    /\ outcome.at = 1

\* the union over the KeyUsage extensions of flags outside the allowed set
KuDenied ==
    LET allowed == {LongNameGet(conf.allowed_usage[i].str) :
                       i \in 1..Len(conf.allowed_usage)}
    IN  UNION {Exts[i].usages \ allowed :
                  i \in {j \in 1..Len(Exts) : Exts[j].kind = "KeyUsage"}}

\* C4: key_usage rejects iff the union, over every KeyUsage extension, of
\* its flags minus the normalized allowed set is non-empty, and the
\* KeyUsageNotAllowed error names exactly that union.
C4_KeyUsageDeniedUnion ==
    (call.name = "key_usage" /\ "allowed_usage" \in conf.given) =>
        IF KuDenied # {}
        THEN /\ outcome.kind = "ValidationError"
             /\ outcome.code = "KeyUsageNotAllowed"
             /\ outcome.denied = KuDenied
        ELSE outcome.kind = "accept"

C4_Witness ==
    /\ call.name = "key_usage"
    /\ conf.allowed_usage = <<PyStr(s_Digital_Signature)>>
    /\ Exts = <<KeyUsage({s_digitalSignature, s_keyEncipherment}),
                KeyUsage({s_keyEncipherment, s_keyCertSign})>>
    /\ outcome.denied = {s_keyEncipherment, s_keyCertSign}

\* a str that is a dotted sequence of decimal numbers
LiteralOid(str) ==
    LET parts == split(str, ".") IN \A i \in 1..Len(parts) : IsDecimal(parts[i])

\* an entry of allowed_usage as constructed that the claim calls known
KnownUsage(e) ==
    \/ e.str \in DOMAIN EXT_KEY_USAGE_NAMES_INV
    \/ e.str \in DOMAIN EXT_KEY_USAGE_SHORT_NAMES_INV
    \/ LiteralOid(e.str)

\* the OID the claim assigns to a known entry
KnownOid(e) ==
    IF e.str \in DOMAIN EXT_KEY_USAGE_NAMES_INV THEN EXT_KEY_USAGE_NAMES_INV[e.str]
    ELSE IF e.str \in DOMAIN EXT_KEY_USAGE_SHORT_NAMES_INV
    THEN EXT_KEY_USAGE_SHORT_NAMES_INV[e.str]
    ELSE LET parts == split(e.str, ".") IN [i \in 1..Len(parts) |-> DecimalValue(parts[i])]

\* C5: ext_key_usage fails with UnknownUsage whenever an entry of
\* allowed_usage is no long name, short name or literal OID, whatever the
\* CSR holds; when every entry normalizes it rejects with
\* ExtKeyUsageNotAllowed iff some ExtendedKeyUsage extension carries an OID
\* outside the normalized allowed set, and accepts otherwise.
C5_ExtKeyUsageDecision ==
    (call.name = "ext_key_usage" /\ "allowed_usage" \in conf.given) =>
        LET entries == constructed.allowed_usage
            unknown == \E i \in 1..Len(entries) : ~KnownUsage(entries[i])
            allowed == {KnownOid(entries[i]) : i \in 1..Len(entries)}
            outside == \E i \in 1..Len(Exts) :
                          /\ Exts[i].kind = "ExtendedKeyUsage"
                          /\ Exts[i].oids \ allowed # {}
        IN  IF unknown
            THEN outcome.kind = "ValidationError" /\ outcome.code = "UnknownUsage"
            ELSE IF outside
            THEN outcome.kind = "ValidationError" /\ outcome.code = "ExtKeyUsageNotAllowed"
            ELSE outcome.kind = "accept"

\* the claimed rejection condition of server_group for the CN cn
GroupMismatchCase(cn, group_prefixes, groups) ==
    \E k \in 1..Len(cn) :
        /\ cn[k] = "-"
        /\ \A j \in 1..(k - 1) : cn[j] # "-" /\ cn[j] # "."
        /\ SubSeq(cn, 1, k - 1) \in DOMAIN group_prefixes
        /\ group_prefixes[SubSeq(cn, 1, k - 1)] \notin groups

\* C6: for a CSR with exactly one CN, server_group rejects (GroupMismatch)
\* iff the CN has a '-', the text before the first '-' has no '.', that text
\* is a key of group_prefixes and its group is not among the requester's
\* groups; in every other case it accepts.
C6_ServerGroupDecision ==
    (call.name = "server_group" /\ Len(call.csr.cns) = 1) =>
        LET gp == IF "group_prefixes" \in conf.given THEN conf.group_prefixes ELSE EmptyDict IN
        IF GroupMismatchCase(call.csr.cns[1], gp, call.groups)
        THEN outcome.kind = "ValidationError" /\ outcome.code = "GroupMismatch"
        ELSE outcome.kind = "accept"

C6_Witness ==
    /\ call.name = "server_group"
    /\ call.csr.cns = <<s_t_x_h>>
    /\ s_t_x \in DOMAIN conf.group_prefixes
    /\ conf.group_prefixes[s_t_x] \notin call.groups
    /\ outcome.kind = "accept"

\* C7: with its configuration keys omitted every validator ends in
\* acceptance or a ValidationError and behaves as with the documented
\* default: key_usage and ext_key_usage as with an empty allowed list,
\* source_cidrs as with an empty list (SourceNotAllowed).
C7_OmittedConfigDefaults ==
    (call.name # "none" /\ conf.given = {}) =>
        /\ outcome.kind \in {"accept", "ValidationError"}
        /\ call.name = "key_usage" =>
              (outcome.kind = "accept" <=>
                  \A i \in 1..Len(Exts) : Exts[i].usages = {})
        /\ call.name = "ext_key_usage" =>
              (outcome.kind = "accept" <=>
                  \A i \in 1..Len(Exts) : Exts[i].oids = {})
        /\ call.name = "source_cidrs" => outcome.code = "SourceNotAllowed"

\* C8: no validator modifies its configuration: after any sequence of
\* invocations every configuration list holds the elements it was built with.
C8_ConfigNeverModified == conf = constructed

\* C9: invoking a validator again with the same CSR, request and
\* configuration object yields the outcome of the previous invocation.
C9_Idempotent == [][again' => outcome' = outcome]_vars

C9_Witness ==
    /\ again
    /\ call.name = "ext_key_usage"
    /\ conf # constructed
    /\ outcome.code = "ExtKeyUsageNotAllowed"

\* C10: under every interleaving of ext_key_usage calls that share one
\* allowed_usage list, each call ends with the outcome it has when it runs
\* alone on the configuration as constructed.
C10_InterleavingSameAsAlone ==
    \A t \in DOMAIN th :
        th[t].pc = "done" =>
            th[t].outcome = ext_key_usage(th[t].csr, constructed).outcome

C10_Witness ==
    /\ \A t \in DOMAIN th : th[t].pc = "done"
    /\ DOMAIN th # {}
    /\ conf # constructed
    /\ th["t1"].outcome.kind = "accept"
    /\ th["t2"].outcome.code = "ExtKeyUsageNotAllowed"

====
